---------------------------- MODULE Spec2Model ----------------------------
(***************************************************************************)
(* Signal-generation pipeline of the forex assessment server:              *)
(*   OpportunityService   (services/opportunityService.js)                 *)
(*   RiskManagementService (services/riskManagementService.js)             *)
(*                                                                         *)
(* Units.  JavaScript numbers are modelled as scaled integers:             *)
(*   price, atr          1e-6          (1.0855  -> 1085500)                *)
(*   trading levels      0.5e-6        (so that 1.5 * atr is an integer)   *)
(*   emitted levels      1e-5          (the result of toFixed(5))          *)
(*   spread              0.01 pip      (1.2     -> 120)                    *)
(*   vwapSlope           0.00005       (0.0001  -> 2, 0.0003 -> 6)         *)
(*   rsi, adx            half points   (52      -> 104)                    *)
(*   score               1/ScoreScale  points                              *)
(*   risk:reward         exact fraction num/den, emitted in hundredths     *)
(***************************************************************************)
EXTENDS Integers, Sequences, FiniteSets, TLC

VARIABLES
    \* ---- one call of assessSinglePair ----
    data,        \* the snapshot passed to assessSinglePair
    pc,          \* "start" before the call, "done" after it
    rnd,         \* the value Math.random() * 20 took in the call
    fperr,       \* sign of the rounding error of reward / risk in the call
    rawScore,    \* local `score` before the clamp of line 116
    score,       \* value returned by calculateOpportunityScore
    setup,       \* value returned by determineSetupType
    levels,      \* value returned by calculateTradingLevels
    riskReward,  \* value returned by calculateRiskReward
    result,      \* value returned by assessSinglePair
    \* ---- one call of assessAllPairs ----
    marketData,     \* the mapping instrument -> snapshot passed to the call
    bpc,            \* "loop" in the for loop, "returned", or "rejected"
    bidx,           \* position of the for loop in Object.entries(marketData)
    opportunities,  \* the local array `opportunities`
    outcomes,       \* per instrument, what its assessSinglePair call did
    brnds,          \* per instrument, the random term of its call
    rawScores,      \* per instrument, the score sum before the clamp
    returned,       \* the array the call resolved with
    \* ---- one call of validateSettings ----
    settings,       \* the settings object passed to validateSettings
    vpc,            \* "start" before the call, "done" after it
    validation,     \* the object validateSettings returned
    response,       \* HTTP status POST /settings answered with, 0 before
    \* ---- one call of calculatePositionSize ----
    sizeArgs,       \* the arguments of the call
    spc,            \* "start" before the call, "done" after it
    sizing,         \* the value calculatePositionSize returned
    \* ---- one call of the indicator functions ----
    series,         \* the bar series passed to the five indicator functions
    ipc,            \* "start" before the calls, "done" after them
    vwapData,       \* the array calculateVWAP returned
    rsiData,        \* the array calculateRSI returned
    atrData,        \* the array calculateATR returned
    adxData,        \* the array calculateADX returned
    pivotPoints,    \* the object calculatePivotPoints returned
    \* ---- the server's global state (server.js) ----
    serverMarketData,     \* `marketData`: the market-data table, with each
                          \* entry's historicalData kept as its length
    serverOpportunities,  \* `opportunities`: the opportunity history
    ticks,                \* runs of updateMarketData so far
    steps,                \* runs of any server handler so far
    emitted,              \* the events the last handler run emitted, in order
    nextId,               \* the ids given out so far, plus one (uuidv4())
    \* ---- handler invocations started within one macrotask ----
    inv                   \* per invocation: its handler, position, local
                          \* array of opportunities and emitted events

singleVars == <<data, pc, rnd, fperr, rawScore, score, setup, levels,
                riskReward, result>>
batchVars == <<marketData, bpc, bidx, opportunities, outcomes, brnds,
               rawScores, returned>>
validateVars == <<settings, vpc, validation, response>>
sizeVars == <<sizeArgs, spc, sizing>>
indicatorVars == <<series, ipc, vwapData, rsiData, atrData, adxData,
                   pivotPoints>>
serverVars == <<serverMarketData, serverOpportunities, ticks, steps, emitted,
                nextId>>
overlapVars == <<inv>>
vars == <<singleVars, batchVars, validateVars, sizeVars, indicatorVars,
          serverVars, overlapVars>>

\* what each operation leaves alone
exceptSingle == <<batchVars, validateVars, sizeVars, indicatorVars, serverVars,
        overlapVars>>
exceptBatch == <<singleVars, validateVars, sizeVars, indicatorVars, serverVars,
        overlapVars>>
exceptValidate == <<singleVars, batchVars, sizeVars, indicatorVars, serverVars,
        overlapVars>>
exceptSize == <<singleVars, batchVars, validateVars, indicatorVars, serverVars,
        overlapVars>>
exceptIndicators == <<singleVars, batchVars, validateVars, sizeVars, serverVars,
        overlapVars>>
exceptOverlap == <<singleVars, batchVars, validateVars, sizeVars,
                   indicatorVars>>
exceptServer == <<singleVars, batchVars, validateVars, sizeVars, indicatorVars,
        overlapVars>>

\* Resolution of the score: one point is ScoreScale units.
ScoreScale == 2

Pts(x) == 2 * x          \* rsi / adx points to half points

Abs(x) == IF x < 0 THEN -x ELSE x
Max(a, b) == IF a > b THEN a ELSE b
Min(a, b) == IF a < b THEN a ELSE b

Undefined == "undefined"
PAIRS == <<"EUR/USD", "GBP/USD">>

\* Math.random() * 20 lies in [0, 20)
RandomTerms == 0 .. (20 * ScoreScale - 1)

\* reward / risk is a floating-point quotient of two rounded differences: it
\* may come out just below, exactly at, or just above the exact quotient.
RoundingErrors == {-1, 0, 1}

-----------------------------------------------------------------------------
(* OpportunityService.calculateOpportunityScore, lines 64-117 *)

\* variant: strong-trend bonus from |vwapSlope| >= 0.0003 on
ScoreBeforeClamp_InclusiveBonus(d, r) ==
    LET S == ScoreScale
        base == 50 * S
        slope1 == IF d.regime = "trending" /\ Abs(d.vwapSlope) > 2
                  THEN 15 * S ELSE 0
        slope2 == IF d.regime = "trending" /\ Abs(d.vwapSlope) >= 6
                  THEN 10 * S ELSE 0
        rsiPts == IF d.regime = "trending"
                  THEN IF d.rsi >= Pts(45) /\ d.rsi <= Pts(65) THEN 12 * S
                       ELSE IF d.rsi >= Pts(40) /\ d.rsi <= Pts(70) THEN 6 * S
                       ELSE 0
                  ELSE IF d.rsi > Pts(70) \/ d.rsi < Pts(30) THEN 15 * S
                       ELSE IF d.rsi > Pts(65) \/ d.rsi < Pts(35) THEN 8 * S
                       ELSE 0
        adxPts == IF d.adx > Pts(30) THEN 12 * S
                  ELSE IF d.adx > Pts(25) THEN 8 * S
                  ELSE IF d.adx < Pts(20) THEN 5 * S
                  ELSE 0
        normalSpread == IF d.pair = "EUR/USD" THEN 120 ELSE 180
        spreadPts == IF d.spread <= normalSpread THEN 10 * S
                     ELSE IF d.spread <= (normalSpread * 12) \div 10 THEN 5 * S
                     ELSE -(10 * S)
    IN  base + slope1 + slope2 + rsiPts + adxPts + spreadPts + r

\* lines 65-114: the sum before the clamp
ScoreBeforeClamp(d, r) ==
    LET S == ScoreScale
        base == 50 * S
        slope1 == IF d.regime = "trending" /\ Abs(d.vwapSlope) > 2
                  THEN 15 * S ELSE 0
        slope2 == IF d.regime = "trending" /\ Abs(d.vwapSlope) > 6
                  THEN 10 * S ELSE 0
        rsiPts == IF d.regime = "trending"
                  THEN IF d.rsi >= Pts(45) /\ d.rsi <= Pts(65) THEN 12 * S
                       ELSE IF d.rsi >= Pts(40) /\ d.rsi <= Pts(70) THEN 6 * S
                       ELSE 0
                  ELSE IF d.rsi > Pts(70) \/ d.rsi < Pts(30) THEN 15 * S
                       ELSE IF d.rsi > Pts(65) \/ d.rsi < Pts(35) THEN 8 * S
                       ELSE 0
        adxPts == IF d.adx > Pts(30) THEN 12 * S
                  ELSE IF d.adx > Pts(25) THEN 8 * S
                  ELSE IF d.adx < Pts(20) THEN 5 * S
                  ELSE 0
        normalSpread == IF d.pair = "EUR/USD" THEN 120 ELSE 180
        spreadPts == IF d.spread <= normalSpread THEN 10 * S
                     ELSE IF d.spread <= (normalSpread * 12) \div 10 THEN 5 * S
                     ELSE -(10 * S)
    IN  base + slope1 + slope2 + rsiPts + adxPts + spreadPts + r

calculateOpportunityScore(d, r) ==
    Max(0, Min(100 * ScoreScale, ScoreBeforeClamp(d, r)))

(* OpportunityService.determineSetupType, lines 119-123 *)
determineSetupType(d) ==
    IF d.regime = "trending" THEN "Trend Continuation" ELSE "Liquidity Reversal"

(* OpportunityService.calculateTradingLevels, lines 125-160.               *)
(* Multipliers 1.5, 2.0, 1.0, 1.5 are 3, 4, 2, 3 halves.                   *)

\* variant: the stop always below and the target always above the entry
calculateTradingLevels_AlwaysLong(d, st) ==
    LET entry == 2 * d.price
    IN  IF st = "Trend Continuation"
        THEN [entry |-> entry, stopLoss |-> entry - d.atr * 3,
              takeProfit |-> entry + d.atr * 4]
        ELSE [entry |-> entry, stopLoss |-> entry - d.atr * 2,
              takeProfit |-> entry + d.atr * 3]

\* variant: a flat vwapSlope counts as bullish
calculateTradingLevels_FlatIsBullish(d, st) ==
    LET entry == 2 * d.price
    IN  IF st = "Trend Continuation"
        THEN IF d.vwapSlope >= 0
             THEN [entry |-> entry, stopLoss |-> entry - d.atr * 3,
                   takeProfit |-> entry + d.atr * 4]
             ELSE [entry |-> entry, stopLoss |-> entry + d.atr * 3,
                   takeProfit |-> entry - d.atr * 4]
        ELSE IF d.rsi > Pts(70)
             THEN [entry |-> entry, stopLoss |-> entry + d.atr * 2,
                   takeProfit |-> entry - d.atr * 3]
             ELSE [entry |-> entry, stopLoss |-> entry - d.atr * 2,
                   takeProfit |-> entry + d.atr * 3]

calculateTradingLevels(d, st) ==
    LET entry == 2 * d.price
    IN  IF st = "Trend Continuation"
        THEN IF d.vwapSlope > 0
             THEN [entry |-> entry, stopLoss |-> entry - d.atr * 3,
                   takeProfit |-> entry + d.atr * 4]
             ELSE [entry |-> entry, stopLoss |-> entry + d.atr * 3,
                   takeProfit |-> entry - d.atr * 4]
        ELSE IF d.rsi > Pts(70)
             THEN [entry |-> entry, stopLoss |-> entry + d.atr * 2,
                   takeProfit |-> entry - d.atr * 3]
             ELSE [entry |-> entry, stopLoss |-> entry - d.atr * 2,
                   takeProfit |-> entry + d.atr * 3]

(* OpportunityService.calculateRiskReward, lines 162-166.                  *)
(* 0 / 0 is NaN, x / 0 is Infinity; otherwise the quotient num/den with    *)
(* the sign of its rounding error.                                         *)
calculateRiskReward(lv, e) ==
    LET risk == Abs(lv.entry - lv.stopLoss)
        reward == Abs(lv.takeProfit - lv.entry)
    IN  IF risk = 0
        THEN [kind |-> IF reward = 0 THEN "NaN" ELSE "Infinity",
              num |-> reward, den |-> 0, err |-> 0]
        ELSE [kind |-> "num", num |-> reward, den |-> risk, err |-> e]

\* variant: the minimum risk:reward is 1.3
BelowMinRiskReward_Min13(rr) ==
    /\ rr.kind = "num"
    /\ \/ 10 * rr.num < 13 * rr.den
       \/ 10 * rr.num = 13 * rr.den /\ rr.err < 0

\* rr < 1.5 as JavaScript evaluates it: false for NaN and Infinity
BelowMinRiskReward(rr) ==
    /\ rr.kind = "num"
    /\ \/ 2 * rr.num < 3 * rr.den
       \/ 2 * rr.num = 3 * rr.den /\ rr.err < 0

(* OpportunityService.getConfidenceLevel, lines 168-172 *)
getConfidenceLevel(s) ==
    IF s >= 85 * ScoreScale THEN "high"
    ELSE IF s >= 75 * ScoreScale THEN "medium"
    ELSE "low"

\* Math.round(score): nearest integer, halves up
MathRound(s) == (2 * s + ScoreScale) \div (2 * ScoreScale)

\* parseFloat(x.toFixed(5)) of a level: nearest multiple of 1e-5, the larger
\* one on a tie, half away from zero for a negative level
ToFixed5(x) == IF x >= 0 THEN (x + 10) \div 20 ELSE -((10 - x) \div 20)

\* parseFloat(rr.toFixed(2)), in hundredths; NaN and Infinity stay as they are
ToFixed2(rr) ==
    IF rr.kind = "num"
    THEN [kind |-> "num", val |-> (200 * rr.num + rr.den) \div (2 * rr.den)]
    ELSE [kind |-> rr.kind, val |-> 0]

NoOpportunity == [kind |-> "null"]
Thrown == [kind |-> "throw"]

(* OpportunityService.assessSinglePair, lines 21-62 *)
assessSinglePair(pair, d, r, e) ==
    IF d.isNull THEN Thrown        \* reading data.regime of null, line 68
    ELSE
    LET sc == calculateOpportunityScore(d, r)
        st == determineSetupType(d)
        lv == calculateTradingLevels(d, st)
        rr == calculateRiskReward(lv, e)
    IN  IF sc < 70 * ScoreScale THEN NoOpportunity
        ELSE IF BelowMinRiskReward(rr) THEN NoOpportunity
        ELSE [kind |-> "opp",
              pair |-> pair,
              setup |-> st,
              score |-> MathRound(sc),
              entry |-> ToFixed5(lv.entry),
              stopLoss |-> ToFixed5(lv.stopLoss),
              takeProfit |-> ToFixed5(lv.takeProfit),
              riskReward |-> ToFixed2(rr),
              confidence |-> getConfidenceLevel(sc),
              regime |-> d.regime]

-----------------------------------------------------------------------------
(* Snapshots: the entries of the market-data table (server.js 59-84,       *)
(* routes/api.js): no `pair` field, so data.pair reads undefined.          *)

Regimes == {"trending", "ranging", "volatile"}
SlopeValues == {-7, 0, 2, 6, 7}
RsiValues == {Pts(25), Pts(33), Pts(42), Pts(52), Pts(70), Pts(75)}
AdxValues == {Pts(15), Pts(20), Pts(25), Pts(28), Pts(35)}
SpreadValues == {110, 200, 220}
AtrValues == {0, 8500}
PriceValues == {1085500, 1264537}

Snapshots ==
    [isNull : {FALSE}, pair : {Undefined}, price : PriceValues,
     spread : SpreadValues, atr : AtrValues, vwapSlope : SlopeValues,
     rsi : RsiValues, adx : AdxValues, regime : Regimes]

NoLevels == [entry |-> 0, stopLoss |-> 0, takeProfit |-> 0]
NoRiskReward == [kind |-> "none", num |-> 0, den |-> 0, err |-> 0]

PairSet == {PAIRS[k] : k \in 1 .. Len(PAIRS)}

NullSnapshot ==
    [isNull |-> TRUE, pair |-> Undefined, price |-> 0, spread |-> 0,
     atr |-> 0, vwapSlope |-> 0, rsi |-> 0, adx |-> 0, regime |-> "none"]

NotAssessed == [kind |-> "pending"]

SingleIdle ==
    /\ data = NullSnapshot
    /\ pc = "idle"
    /\ rnd = 0
    /\ fperr = 0
    /\ rawScore = 0
    /\ score = 0
    /\ setup = "none"
    /\ levels = NoLevels
    /\ riskReward = NoRiskReward
    /\ result = NoOpportunity

BatchIdle ==
    /\ marketData = [p \in PairSet |-> NullSnapshot]
    /\ bpc = "idle"
    /\ bidx = 1
    /\ opportunities = << >>
    /\ outcomes = [p \in PairSet |-> NotAssessed]
    /\ brnds = [p \in PairSet |-> 0]
    /\ rawScores = [p \in PairSet |-> 0]
    /\ returned = << >>

NoSettings ==
    [balance |-> 0, riskPerTrade |-> 0, dailyLossLimit |-> 0, maxTrades |-> 0]

ValidateIdle ==
    /\ settings = NoSettings
    /\ vpc = "idle"
    /\ validation = [isValid |-> TRUE, errors |-> << >>]
    /\ response = 0

NoSizeArgs ==
    [accountBalance |-> 0, riskPerTrade |-> 0, entryPrice |-> 0,
     stopLoss |-> 0, pair |-> Undefined]

NoSizing == [kind |-> "none"]

SizeIdle ==
    /\ sizeArgs = NoSizeArgs
    /\ spc = "idle"
    /\ sizing = NoSizing

NoPivotPoints == [kind |-> "none"]

IndicatorsIdle ==
    /\ series = << >>
    /\ ipc = "idle"
    /\ vwapData = << >>
    /\ rsiData = << >>
    /\ atrData = << >>
    /\ adxData = << >>
    /\ pivotPoints = NoPivotPoints

OverlapIdle == inv = << >>

ServerIdle ==
    /\ serverMarketData = << >>
    /\ serverOpportunities = << >>
    /\ ticks = 0
    /\ steps = 0
    /\ emitted = << >>
    /\ nextId = 1

Init ==
    /\ OverlapIdle
    /\ BatchIdle
    /\ ValidateIdle
    /\ SizeIdle
    /\ IndicatorsIdle
    /\ ServerIdle
    /\ data \in Snapshots
    /\ pc = "start"
    /\ rnd = 0
    /\ fperr = 0
    /\ rawScore = 0
    /\ score = 0
    /\ setup = "none"
    /\ levels = NoLevels
    /\ riskReward = NoRiskReward
    /\ result = NoOpportunity

\* one call assessSinglePair(pair, data, marketData)
AssessSinglePair ==
    /\ pc = "start"
    /\ \E r \in RandomTerms, e \in RoundingErrors :
          /\ rnd' = r
          /\ fperr' = e
          /\ rawScore' = ScoreBeforeClamp(data, r)
          /\ score' = calculateOpportunityScore(data, r)
          /\ setup' = determineSetupType(data)
          /\ levels' = calculateTradingLevels(data, determineSetupType(data))
          /\ riskReward' = calculateRiskReward(
                              calculateTradingLevels(data, determineSetupType(data)), e)
          /\ result' = assessSinglePair(PAIRS[1], data, r, e)
    /\ pc' = "done"
    /\ UNCHANGED data
    /\ UNCHANGED exceptSingle

Next == AssessSinglePair

Spec == Init /\ [][Next]_vars

-----------------------------------------------------------------------------
(* OpportunityService.assessAllPairs, lines 4-19                           *)

BatchSnapshots ==
    [isNull : {FALSE}, pair : {Undefined}, price : {1085500},
     spread : {110, 130, 150, 200, 220}, atr : {0, 8500}, vwapSlope : {6},
     rsi : {Pts(52), Pts(75)}, adx : {Pts(28)},
     regime : {"trending", "ranging"}]

BatchRandomTerms == {0, 9 * ScoreScale, 14 * ScoreScale + 1, 20 * ScoreScale - 1}

\* variant: no try / catch around the call, a throw rejects the whole batch
LoopIteration_NoCatch(opps, out) ==
    IF out.kind = "throw" THEN [opportunities |-> << >>, rejected |-> TRUE]
    ELSE IF out.kind = "opp"
         THEN [opportunities |-> Append(opps, out), rejected |-> FALSE]
         ELSE [opportunities |-> opps, rejected |-> FALSE]

\* lines 8-15: the body of the for loop, given what assessSinglePair did
LoopIteration(opps, out) ==
    IF out.kind = "throw"
    THEN [opportunities |-> opps, rejected |-> FALSE]   \* catch: console.error
    ELSE IF out.kind = "opp"
         THEN [opportunities |-> Append(opps, out), rejected |-> FALSE]
         ELSE [opportunities |-> opps, rejected |-> FALSE]

\* the market-data table may hold a null entry for an instrument whose data
\* could not be built; every other entry is a snapshot
InitBatch ==
    /\ OverlapIdle
    /\ SingleIdle
    /\ ValidateIdle
    /\ SizeIdle
    /\ IndicatorsIdle
    /\ ServerIdle
    /\ marketData \in [PairSet -> BatchSnapshots \cup {NullSnapshot}]
    /\ bpc = "loop"
    /\ bidx = 1
    /\ opportunities = << >>
    /\ outcomes = [p \in PairSet |-> NotAssessed]
    /\ brnds = [p \in PairSet |-> 0]
    /\ rawScores = [p \in PairSet |-> 0]
    /\ returned = << >>

\* one iteration of the for loop of line 7
AssessNextPair ==
    /\ bpc = "loop"
    /\ bidx <= Len(PAIRS)
    /\ LET p == PAIRS[bidx]
           d == marketData[p]
       IN  \E r \in BatchRandomTerms, e \in RoundingErrors :
             LET out == assessSinglePair(p, d, r, e)
                 step == LoopIteration(opportunities, out)
             IN  /\ outcomes' = [outcomes EXCEPT ![p] = out]
                 /\ brnds' = [brnds EXCEPT ![p] = r]
                 /\ rawScores' = [rawScores EXCEPT
                        ![p] = IF d.isNull THEN 0 ELSE ScoreBeforeClamp(d, r)]
                 /\ opportunities' = step.opportunities
                 /\ IF step.rejected
                    THEN bpc' = "rejected" /\ bidx' = bidx
                    ELSE bpc' = "loop" /\ bidx' = bidx + 1
    /\ UNCHANGED <<marketData, returned>>
    /\ UNCHANGED exceptBatch

\* line 18: return opportunities
ReturnOpportunities ==
    /\ bpc = "loop"
    /\ bidx > Len(PAIRS)
    /\ returned' = opportunities
    /\ bpc' = "returned"
    /\ UNCHANGED <<marketData, bidx, opportunities, outcomes, brnds, rawScores>>
    /\ UNCHANGED exceptBatch

NextBatch == AssessNextPair \/ ReturnOpportunities

SpecBatch == InitBatch /\ [][NextBatch]_vars

\* the loop is never suspended for ever: every await of line 9 resumes
SpecBatchFair == SpecBatch /\ WF_vars(NextBatch)

-----------------------------------------------------------------------------
(* RiskManagementService.validateSettings, lines 2-44                      *)
(* balance in dollars; riskPerTrade and dailyLossLimit in tenths of a      *)
(* percent; maxTrades in tenths of a trade.                                *)

MsgBalanceLow == "Account balance must be at least $100"
MsgBalanceHigh == "Account balance cannot exceed $1,000,000"
MsgRiskPerTrade == "Risk per trade must be between 0.1% and 5%"
MsgDailyLoss == "Daily loss limit must be between 1% and 10%"
MsgRiskExceedsDaily == "Risk per trade cannot exceed daily loss limit"
MsgMaxTrades == "Maximum trades per day must be between 1 and 20"

\* the two statements of every failing check
Fail(v, msg) == [isValid |-> FALSE, errors |-> Append(v.errors, msg)]

\* variant: return at the first failing check
validateSettings_ShortCircuit(s) ==
    LET v0 == [isValid |-> TRUE, errors |-> << >>]
    IN  IF s.balance < 100 THEN Fail(v0, MsgBalanceLow)
        ELSE IF s.balance > 1000000 THEN Fail(v0, MsgBalanceHigh)
        ELSE IF s.riskPerTrade < 1 \/ s.riskPerTrade > 50
             THEN Fail(v0, MsgRiskPerTrade)
        ELSE IF s.dailyLossLimit < 10 \/ s.dailyLossLimit > 100
             THEN Fail(v0, MsgDailyLoss)
        ELSE IF s.riskPerTrade > s.dailyLossLimit
             THEN Fail(v0, MsgRiskExceedsDaily)
        ELSE IF s.maxTrades < 10 \/ s.maxTrades > 200
             THEN Fail(v0, MsgMaxTrades)
        ELSE v0

\* variant: the risk-per-trade / daily-loss-limit cross check is missing
validateSettings_NoCrossCheck(s) ==
    LET v0 == [isValid |-> TRUE, errors |-> << >>]
        v1 == IF s.balance < 100 THEN Fail(v0, MsgBalanceLow) ELSE v0
        v2 == IF s.balance > 1000000 THEN Fail(v1, MsgBalanceHigh) ELSE v1
        v3 == IF s.riskPerTrade < 1 \/ s.riskPerTrade > 50
              THEN Fail(v2, MsgRiskPerTrade) ELSE v2
        v4 == IF s.dailyLossLimit < 10 \/ s.dailyLossLimit > 100
              THEN Fail(v3, MsgDailyLoss) ELSE v3
        v6 == IF s.maxTrades < 10 \/ s.maxTrades > 200
              THEN Fail(v4, MsgMaxTrades) ELSE v4
    IN  v6

validateSettings(s) ==
    LET v0 == [isValid |-> TRUE, errors |-> << >>]
        v1 == IF s.balance < 100 THEN Fail(v0, MsgBalanceLow) ELSE v0
        v2 == IF s.balance > 1000000 THEN Fail(v1, MsgBalanceHigh) ELSE v1
        v3 == IF s.riskPerTrade < 1 \/ s.riskPerTrade > 50
              THEN Fail(v2, MsgRiskPerTrade) ELSE v2
        v4 == IF s.dailyLossLimit < 10 \/ s.dailyLossLimit > 100
              THEN Fail(v3, MsgDailyLoss) ELSE v3
        v5 == IF s.riskPerTrade > s.dailyLossLimit
              THEN Fail(v4, MsgRiskExceedsDaily) ELSE v4
        v6 == IF s.maxTrades < 10 \/ s.maxTrades > 200
              THEN Fail(v5, MsgMaxTrades) ELSE v5
    IN  v6

SettingsValues ==
    [balance : {50, 99, 100, 10000, 1000000, 1000001},
     riskPerTrade : {0, 1, 10, 25, 50, 51, 120},
     dailyLossLimit : {5, 10, 25, 100, 101},
     maxTrades : {0, 5, 10, 25, 30, 200, 201}]

InitValidate ==
    /\ OverlapIdle
    /\ SingleIdle
    /\ BatchIdle
    /\ SizeIdle
    /\ IndicatorsIdle
    /\ ServerIdle
    /\ settings \in SettingsValues
    /\ vpc = "start"
    /\ validation = [isValid |-> TRUE, errors |-> << >>]
    /\ response = 0

\* one call validateSettings(settings)
ValidateSettings ==
    /\ vpc = "start"
    /\ validation' = validateSettings(settings)
    /\ vpc' = "done"
    /\ UNCHANGED <<settings, response>>
    /\ UNCHANGED exceptValidate

(* routes/api.js: settingsSchema and validateRequest, App.js 834-858.      *)
(* TRUE iff schema.validate(req.body) reports an error for a numeric body. *)
settingsSchemaError(s) ==
    \/ s.balance < 100 \/ s.balance > 1000000
    \/ s.riskPerTrade < 1 \/ s.riskPerTrade > 50
    \/ s.dailyLossLimit < 10 \/ s.dailyLossLimit > 100
    \/ s.maxTrades < 10 \/ s.maxTrades > 200

(* routes/api.js: router.post('/settings'), App.js 1072-1102 *)
PostSettings ==
    /\ vpc = "start"
    /\ IF settingsSchemaError(settings)
       THEN /\ response' = 400               \* validateRequest, no next()
            /\ UNCHANGED validation
       ELSE /\ validation' = validateSettings(settings)
            /\ response' = IF validateSettings(settings).isValid
                           THEN 200 ELSE 400
    /\ vpc' = "responded"
    /\ UNCHANGED settings
    /\ UNCHANGED exceptValidate

NextValidate == ValidateSettings \/ PostSettings

SpecValidate == InitValidate /\ [][NextValidate]_vars

-----------------------------------------------------------------------------
(* RiskManagementService.calculatePositionSize, lines 46-70                *)
(* accountBalance in dollars, riskPerTrade in tenths of a percent, prices  *)
(* in 1e-5; riskAmount in thousandths of a dollar, stopDistance in tenths  *)
(* of a pip, pipValue and positionSize in hundredths.                      *)

\* variant: every instrument is worth 1 per pip
getPipValue_NoTable(pair) == 100

(* RiskManagementService.getPipValue, lines 72-82: pipValues[pair] || 1 *)
getPipValue(pair) ==
    IF pair = "EUR/USD" THEN 100
    ELSE IF pair = "GBP/USD" THEN 100
    ELSE IF pair = "USD/JPY" THEN 1
    ELSE IF pair = "USD/CHF" THEN 100
    ELSE 100

\* riskAmount / (stopDistance * pipValue) and Math.round(x * 100) / 100.
\* A division by zero gives Infinity, 0 / 0 gives NaN; Math.round keeps both.
PositionSize(riskAmount, stopDistance, pipValue) ==
    LET den == stopDistance * pipValue
    IN  IF den = 0
        THEN [kind |-> IF riskAmount = 0 THEN "NaN" ELSE "Infinity", val |-> 0]
        ELSE [kind |-> "num",
              val |-> (200 * riskAmount + den) \div (2 * den)]

calculatePositionSize(a) ==
    LET pair == IF a.pair = Undefined THEN "EUR/USD" ELSE a.pair
        riskAmount == a.accountBalance * a.riskPerTrade
        pipValue == getPipValue(pair)
        stopDistance == Abs(a.entryPrice - a.stopLoss)
    IN  [kind |-> "report",
         positionSize |-> PositionSize(riskAmount, stopDistance, pipValue),
         riskAmount |-> riskAmount,
         stopDistance |-> stopDistance,
         pipValue |-> pipValue]

SizeArgsValues ==
    [accountBalance : {0, 100, 10000},
     riskPerTrade : {1, 10, 25},
     entryPrice : {108550, 126450},
     stopLoss : {108250, 108550, 108555, 126450, 126950},
     pair : {Undefined, "EUR/USD", "GBP/USD", "USD/JPY", "USD/CHF", "AUD/USD"}]

InitSize ==
    /\ OverlapIdle
    /\ SingleIdle
    /\ BatchIdle
    /\ ValidateIdle
    /\ IndicatorsIdle
    /\ ServerIdle
    /\ sizeArgs \in SizeArgsValues
    /\ spc = "start"
    /\ sizing = NoSizing

\* one call calculatePositionSize(accountBalance, riskPerTrade, entryPrice,
\* stopLoss, pair)
CalculatePositionSize ==
    /\ spc = "start"
    /\ sizing' = calculatePositionSize(sizeArgs)
    /\ spc' = "done"
    /\ UNCHANGED sizeArgs
    /\ UNCHANGED exceptSize

NextSize == CalculatePositionSize

SpecSize == InitSize /\ [][NextSize]_vars

-----------------------------------------------------------------------------
(* IndicatorService (services/indicatorService.js)                         *)
(* Prices are integers (price ticks), volumes are in hundreds of units.    *)
(* Every indicator                                                         *)
(* value is an exact fraction [kind, num, den] with den > 0; a division    *)
(* 0 / 0 gives kind "NaN", x / 0 gives kind "Infinity".  A sample carries  *)
(* `bar`, the 1-based index of the bar whose timestamp it takes.           *)

\* The `period` argument of calculateRSI, calculateATR and calculateADX
Period == 2

\* longest series examined: enough for every indicator to produce samples
MaxBars == 2 * Period + 1

Frac(n, d) == [kind |-> "num", num |-> n, den |-> d]
NaN == [kind |-> "NaN", num |-> 0, den |-> 1]

RECURSIVE SumTo(_, _)
\* f[1] + ... + f[n]
SumTo(f, n) == IF n = 0 THEN 0 ELSE f[n] + SumTo(f, n - 1)

RECURSIVE SumRange(_, _, _)
\* f[a] + ... + f[b]: slice(a - 1, b).reduce((x, y) => x + y)
SumRange(f, a, b) == IF a > b THEN 0 ELSE f[b] + SumRange(f, a, b - 1)

\* variant: the slope taken as previous value - value
VwapSlope_Reversed(cur, prev) ==
    IF cur.kind # "num" \/ prev.kind # "num" THEN NaN
    ELSE Frac(prev.num * cur.den - cur.num * prev.den, cur.den * prev.den)

\* line 62: vwap - vwapData[i - 1].value
VwapSlope(cur, prev) ==
    IF cur.kind # "num" \/ prev.kind # "num" THEN NaN
    ELSE Frac(cur.num * prev.den - prev.num * cur.den, cur.den * prev.den)

(* IndicatorService.calculateVWAP, lines 48-67.                            *)
(* totalVolumePrice is kept in thirds: sum of (high + low + close) * v.    *)
calculateVWAP(d) ==
    LET tvp3(i) == SumTo([k \in 1 .. Len(d) |->
                            (d[k].high + d[k].low + d[k].close) * d[k].volume], i)
        tv(i) == SumTo([k \in 1 .. Len(d) |-> d[k].volume], i)
        vwap(i) == IF tv(i) = 0
                   THEN (IF tvp3(i) = 0 THEN NaN
                         ELSE [kind |-> "Infinity", num |-> tvp3(i), den |-> 1])
                   ELSE Frac(tvp3(i), 3 * tv(i))
        slope(i) == IF i = 1 THEN Frac(0, 1)
                    ELSE VwapSlope(vwap(i), vwap(i - 1))
    IN  [i \in 1 .. Len(d) |->
            [bar |-> i, value |-> vwap(i), slope |-> slope(i)]]

\* changes[k] = data[k].close - data[k-1].close, lines 76-78
Changes(d) == [k \in 1 .. Len(d) - 1 |-> d[k + 1].close - d[k].close]

\* variant: the average loss kept with its sign, rs = avgGain / -avgLoss
RsiValue_SignedLoss(g, l) ==
    IF l = 0
    THEN IF g = 0 THEN NaN
         ELSE Frac(100, 1)
    ELSE IF g = l THEN [kind |-> "Infinity", num |-> -1, den |-> 1]
    ELSE IF g > l THEN Frac(100 * g, g - l)
    ELSE Frac(-100 * g, l - g)

\* lines 107-108: rs = avgGain / avgLoss, rsi = 100 - 100 / (1 + rs), for
\* avgGain = g / den and avgLoss = l / den
RsiValue(g, l) ==
    IF l = 0
    THEN IF g = 0 THEN NaN          \* rs = 0 / 0
         ELSE Frac(100, 1)          \* rs = Infinity, 100 / Infinity = 0
    ELSE Frac(100 * g, g + l)

RECURSIVE RsiLoop(_, _, _, _, _, _, _)
\* lines 96-114: the loop from changes[k] on, with avgGain = g / den and
\* avgLoss = l / den
RsiLoop(ch, p, k, g, l, den, acc) ==
    IF k > Len(ch) THEN acc
    ELSE LET g2 == IF ch[k] > 0 THEN g * (p - 1) + ch[k] * den
                   ELSE g * (p - 1)
             l2 == IF ch[k] > 0 THEN l * (p - 1)
                   ELSE l * (p - 1) + Abs(ch[k]) * den
         IN  RsiLoop(ch, p, k + 1, g2, l2, den * p,
                     Append(acc, [bar |-> k + 1, value |-> RsiValue(g2, l2),
                                  avgGain |-> Frac(g2, den * p),
                                  avgLoss |-> Frac(l2, den * p)]))

(* IndicatorService.calculateRSI, lines 69-117.  Each sample also records  *)
(* the smoothed averages it was computed from.                             *)
calculateRSI(d, p) ==
    IF Len(d) < p + 1 THEN << >>
    ELSE LET ch == Changes(d)
             g0 == SumTo([k \in 1 .. p |-> IF ch[k] > 0 THEN ch[k] ELSE 0], p)
             l0 == SumTo([k \in 1 .. p |-> IF ch[k] > 0 THEN 0 ELSE Abs(ch[k])], p)
         IN  RsiLoop(ch, p, p + 1, g0, l0, p, << >>)

Max3(a, b, c) == Max(a, Max(b, c))

\* variant: the true range is the bar's own high - low only
TrueRanges_HighLowOnly(d) ==
    [k \in 1 .. Len(d) - 1 |-> d[k + 1].high - d[k + 1].low]

\* true range of bar k + 1 against bar k, lines 126-132
TrueRanges(d) ==
    [k \in 1 .. Len(d) - 1 |->
        Max3(d[k + 1].high - d[k + 1].low,
             Abs(d[k + 1].high - d[k].close),
             Abs(d[k + 1].low - d[k].close))]

RECURSIVE AtrLoop(_, _, _, _, _, _)
\* lines 146-152, with atr = a / den
AtrLoop(tr, p, k, a, den, acc) ==
    IF k > Len(tr) THEN acc
    ELSE LET a2 == a * (p - 1) + tr[k] * den
         IN  AtrLoop(tr, p, k + 1, a2, den * p,
                     Append(acc, [bar |-> k + 1, value |-> Frac(a2, den * p)]))

\* variant: the seed average is not pushed as a sample
calculateATR_NoSeedSample(d, p) ==
    IF Len(d) < p + 1 THEN << >>
    ELSE LET tr == TrueRanges(d)
             atrSum == SumTo(tr, p)
         IN  AtrLoop(tr, p, p + 1, atrSum, p, << >>)

(* IndicatorService.calculateATR, lines 119-155 *)
calculateATR(d, p) ==
    IF Len(d) < p + 1 THEN << >>
    ELSE LET tr == TrueRanges(d)
             atrSum == SumTo(tr, p)
         IN  AtrLoop(tr, p, p + 1, atrSum, p,
                     <<[bar |-> p + 1, value |-> Frac(atrSum, p)]>>)

\* lines 185-187 for the window sums sP, sM, sT (each average is sum / p)
DxValue(sP, sM, sT) ==
    IF sT = 0 THEN NaN                 \* +DI and -DI are NaN or Infinity
    ELSE IF sP + sM = 0 THEN NaN       \* 0 / 0
    ELSE Frac(100 * Abs(sP - sM), sP + sM)

(* IndicatorService.calculateADX, lines 157-196 *)
calculateADX(d, p) ==
    IF Len(d) < p * 2 THEN << >>
    ELSE LET n == Len(d) - 1
             highDiff(k) == d[k + 1].high - d[k].high
             lowDiff(k) == d[k].low - d[k + 1].low
             dmPlus == [k \in 1 .. n |->
                          IF highDiff(k) > lowDiff(k) /\ highDiff(k) > 0
                          THEN highDiff(k) ELSE 0]
             dmMinus == [k \in 1 .. n |->
                          IF lowDiff(k) > highDiff(k) /\ lowDiff(k) > 0
                          THEN lowDiff(k) ELSE 0]
             tr == TrueRanges(d)
         IN  [j \in 1 .. n - p + 1 |->
                 LET k == j + p - 1
                 IN  [bar |-> k + 1,
                      value |-> DxValue(SumRange(dmPlus, k - p + 1, k),
                                        SumRange(dmMinus, k - p + 1, k),
                                        SumRange(tr, k - p + 1, k))]]

\* variant: the levels taken from the first bar of the series
calculatePivotPoints_FirstBar(d) ==
    IF Len(d) = 0 THEN [kind |-> "empty"]
    ELSE LET high == d[1].high
             low == d[1].low
             close == d[1].close
             pivot3 == high + low + close
         IN  [kind |-> "levels",
              pivot |-> pivot3,
              r1 |-> 2 * pivot3 - 3 * low,
              r2 |-> pivot3 + 3 * (high - low),
              r3 |-> 3 * high + 2 * (pivot3 - 3 * low),
              s1 |-> 2 * pivot3 - 3 * high,
              s2 |-> pivot3 - 3 * (high - low),
              s3 |-> 3 * low - 2 * (3 * high - pivot3)]

(* IndicatorService.calculatePivotPoints, lines 198-217, in thirds *)
calculatePivotPoints(d) ==
    IF Len(d) = 0 THEN [kind |-> "empty"]
    ELSE LET high == d[Len(d)].high
             low == d[Len(d)].low
             close == d[Len(d)].close
             pivot3 == high + low + close
         IN  [kind |-> "levels",
              pivot |-> pivot3,
              r1 |-> 2 * pivot3 - 3 * low,
              r2 |-> pivot3 + 3 * (high - low),
              r3 |-> 3 * high + 2 * (pivot3 - 3 * low),
              s1 |-> 2 * pivot3 - 3 * high,
              s2 |-> pivot3 - 3 * (high - low),
              s3 |-> 3 * low - 2 * (3 * high - pivot3)]

\* the bars a series is made of: flat and ranged bars on rising levels and
\* one bar whose high lies below its low; volumes as generateMockPriceData
\* draws them, in [500, 1500), here 500, 1400, 500, 1000 and 700
BarKinds ==
    {[high |-> 10, low |-> 10, close |-> 10, volume |-> 5],
     [high |-> 12, low |-> 11, close |-> 11, volume |-> 14],
     [high |-> 13, low |-> 12, close |-> 13, volume |-> 5],
     [high |-> 15, low |-> 13, close |-> 14, volume |-> 10],
     [high |-> 9, low |-> 11, close |-> 10, volume |-> 7]}

SeriesOfLength(n) == [1 .. n -> BarKinds]

\* a bar with high 1.09, low 1.08, close 1.085, in price ticks of 0.005
PivotExampleBar == [high |-> 218, low |-> 216, close |-> 217, volume |-> 10]

\* short series that end in the bar above
PivotExampleSeries ==
    {Append(s, PivotExampleBar) :
        s \in UNION {SeriesOfLength(n) : n \in 0 .. Period}}

InitIndicators ==
    /\ OverlapIdle
    /\ SingleIdle
    /\ BatchIdle
    /\ ValidateIdle
    /\ SizeIdle
    /\ ServerIdle
    /\ \/ \E n \in 0 .. MaxBars : series \in SeriesOfLength(n)
       \/ series \in PivotExampleSeries
    /\ ipc = "start"
    /\ vwapData = << >>
    /\ rsiData = << >>
    /\ atrData = << >>
    /\ adxData = << >>
    /\ pivotPoints = NoPivotPoints

\* lines 9-15 of calculateIndicators: the five indicator functions applied
\* to one series
CalculateIndicators ==
    /\ ipc = "start"
    /\ vwapData' = calculateVWAP(series)
    /\ rsiData' = calculateRSI(series, Period)
    /\ atrData' = calculateATR(series, Period)
    /\ adxData' = calculateADX(series, Period)
    /\ pivotPoints' = calculatePivotPoints(series)
    /\ ipc' = "done"
    /\ UNCHANGED series
    /\ UNCHANGED exceptIndicators

NextIndicators == CalculateIndicators

SpecIndicators == InitIndicators /\ [][NextIndicators]_vars

(* IndicatorService.generateMockPriceData and calculateIndicators as one   *)
(* call.  Prices are in 0.0001, volumes in hundreds, timestamps in          *)
(* milliseconds relative to the moment of the call.                        *)

\* the hour between two bars, line 36
HourMs == 3600000

\* what one loop iteration draws: the price change (r - 0.5) * 0.002 in
\* [-10, 10), the offsets r * 0.001 of high and low in [0, 10), the volume,
\* and the milliseconds the clock advanced before Date.now() is read
MockDraws ==
    {[change |-> -10, up |-> 0, down |-> 0, volume |-> 5, elapsed |-> 0],
     [change |-> 4, up |-> 9, down |-> 3, volume |-> 10, elapsed |-> 1],
     [change |-> 0, up |-> 2, down |-> 9, volume |-> 5, elapsed |-> 0]}

RECURSIVE Reverse(_)
\* data.reverse()
Reverse(seq) ==
    IF Len(seq) = 0 THEN << >>
    ELSE Append(Reverse(Tail(seq)), Head(seq))

RECURSIVE MockLoop(_, _, _, _, _)
\* lines 27-43: the iterations i = periods .. 1, of which j - 1 are done
MockLoop(draws, j, currentPrice, clock, acc) ==
    IF j > Len(draws) THEN acc
    ELSE LET i == Len(draws) - j + 1
             price2 == Max(0, currentPrice + draws[j].change)
             clock2 == clock + draws[j].elapsed
         IN  MockLoop(draws, j + 1, price2, clock2,
                 Append(acc, [timestamp |-> clock2 - i * HourMs,
                              open |-> price2,
                              high |-> price2 + draws[j].up,
                              low |-> price2 - draws[j].down,
                              close |-> price2,
                              volume |-> draws[j].volume]))

\* variant: the bars returned in the order they were pushed
generateMockPriceData_NoReverse(pair, draws) ==
    MockLoop(draws, 1, IF pair = "EUR/USD" THEN 10855 ELSE 12645, 0, << >>)

(* IndicatorService.generateMockPriceData, lines 22-46 *)
generateMockPriceData(pair, draws) ==
    Reverse(MockLoop(draws, 1, IF pair = "EUR/USD" THEN 10855 ELSE 12645,
                     0, << >>))

InitMock ==
    /\ OverlapIdle
    /\ SingleIdle
    /\ BatchIdle
    /\ ValidateIdle
    /\ SizeIdle
    /\ ServerIdle
    /\ series = << >>
    /\ ipc = "call"
    /\ vwapData = << >>
    /\ rsiData = << >>
    /\ atrData = << >>
    /\ adxData = << >>
    /\ pivotPoints = NoPivotPoints

\* calculateIndicators(pair, period, limit), lines 2-20, for a limit of up
\* to MaxBars bars
CalculateIndicatorsOnMockData ==
    /\ ipc = "call"
    /\ \E pair \in PairSet, limit \in 0 .. MaxBars :
          \E draws \in [1 .. limit -> MockDraws] :
              LET mockData == generateMockPriceData(pair, draws)
              IN  /\ series' = mockData
                  /\ vwapData' = calculateVWAP(mockData)
                  /\ rsiData' = calculateRSI(mockData, Period)
                  /\ atrData' = calculateATR(mockData, Period)
                  /\ adxData' = calculateADX(mockData, Period)
                  /\ pivotPoints' = calculatePivotPoints(mockData)
    /\ ipc' = "done"
    /\ UNCHANGED exceptIndicators

NextMock == CalculateIndicatorsOnMockData

SpecMock == InitMock /\ [][NextMock]_vars

-----------------------------------------------------------------------------
(* The server (server.js): the market-data table, the opportunity history  *)
(* and the handlers that write them.  An `await` of assessAllPairs yields  *)
(* only to the microtask queue (nothing in it waits for I/O), so a handler *)
(* started by a timer or a socket event of its own runs to its end before  *)
(* the next one starts: in SpecServer and SpecTick each handler is one     *)
(* atomic step.  Handlers started within one macrotask do interleave at    *)
(* their awaits; SpecOverlap below models those.                           *)

\* handler runs examined from one initial state
MaxSteps == 2

\* variant: the boundaries adx = 25 and adx = 20 taken inclusively
classifyRegime_InclusiveBounds(adx, vwapSlope) ==
    IF adx >= Pts(25) /\ Abs(vwapSlope) > 2 THEN "trending"
    ELSE IF adx <= Pts(20) THEN "ranging"
    ELSE "volatile"

\* server.js lines 161-167; 0.0001 is 2 slope units
classifyRegime(adx, vwapSlope) ==
    IF adx > Pts(25) /\ Abs(vwapSlope) > 2 THEN "trending"
    ELSE IF adx < Pts(20) THEN "ranging"
    ELSE "volatile"

\* server.js lines 59-84
SeedMarketData ==
    [p \in PairSet |->
        IF p = "EUR/USD"
        THEN [isNull |-> FALSE, pair |-> Undefined, price |-> 1085500,
              spread |-> 110, atr |-> 8500, vwapSlope |-> 6, rsi |-> Pts(52),
              adx |-> Pts(28), regime |-> "trending", correlation |-> 82,
              histLen |-> 0]
        ELSE [isNull |-> FALSE, pair |-> Undefined, price |-> 1264500,
              spread |-> 150, atr |-> 11200, vwapSlope |-> -2, rsi |-> Pts(48),
              adx |-> Pts(22), regime |-> "ranging", correlation |-> 82,
              histLen |-> 0]]

\* what the four Math.random() draws of one instrument's update add to
\* price, rsi, adx and vwapSlope: (r - 0.5) * 0.001 lies in [-500, 500),
\* (r - 0.5) * 2 in [-2, 2) half points, (r - 0.5) * 1 in [-1, 1) half
\* points, (r - 0.5) * 0.0002 in [-2, 2) slope units
TickDraws ==
    {[price |-> -500, rsi |-> -2, adx |-> -1, vwapSlope |-> -2],
     [price |-> 0, rsi |-> 0, adx |-> 0, vwapSlope |-> 0],
     [price |-> 499, rsi |-> 1, adx |-> -1, vwapSlope |-> 1],
     [price |-> -1, rsi |-> 1, adx |-> 0, vwapSlope |-> -2]}

\* variant: no clamping of rsi, adx and price, no trimming of the history
TickEntry_Unclamped(e, dr) ==
    LET adx2 == e.adx + dr.adx
        slope2 == e.vwapSlope + dr.vwapSlope
    IN  [e EXCEPT !.price = e.price + dr.price,
                  !.rsi = e.rsi + dr.rsi,
                  !.adx = adx2,
                  !.vwapSlope = slope2,
                  !.regime = classifyRegime(adx2, slope2),
                  !.histLen = e.histLen + 1]

\* server.js lines 143-185: the update of one instrument's entry
TickEntry(e, dr) ==
    LET adx2 == Max(0, Min(Pts(100), e.adx + dr.adx))
        slope2 == e.vwapSlope + dr.vwapSlope
    IN  [e EXCEPT !.price = Max(0, e.price + dr.price),
                  !.rsi = Max(0, Min(Pts(100), e.rsi + dr.rsi)),
                  !.adx = adx2,
                  !.vwapSlope = slope2,
                  !.regime = classifyRegime(adx2, slope2),
                  !.histLen = Min(e.histLen + 1, 100)]

\* the score's random term, as drawn in the server's assessments
ServerRandomTerms == {0, 20 * ScoreScale - 1}

RECURSIVE AssessFrom(_, _, _, _, _)
\* the for loop of assessAllPairs from the k-th instrument on
AssessFrom(md, rs, es, k, opps) ==
    IF k > Len(PAIRS) THEN opps
    ELSE AssessFrom(md, rs, es, k + 1,
            LoopIteration(opps,
                assessSinglePair(PAIRS[k], md[PAIRS[k]], rs[PAIRS[k]],
                                 es[PAIRS[k]])).opportunities)

\* OpportunityService.assessAllPairs as one call: the opportunities returned
\* for the table md, random terms rs and rounding errors es
assessAllPairs(md, rs, es) == AssessFrom(md, rs, es, 1, << >>)

\* opportunities.slice(0, n)
Slice0(seq, n) == SubSeq(seq, 1, Min(n, Len(seq)))

\* line 49 of assessSinglePair, id: uuidv4(): the opportunities of one
\* assessAllPairs call with fresh ids n, n + 1, ...
WithIds(new, n) == [i \in 1 .. Len(new) |-> [id |-> n + i - 1] @@ new[i]]

\* variant: [...newOpportunities, ...opportunities], nothing dropped
PrependNew_NoSlice(new, history) == new \o history

\* server.js lines 112, 194 and 218:
\* [...newOpportunities, ...opportunities.slice(0, 20)]
PrependNew(new, history) == new \o Slice0(history, 20)

InitServer ==
    /\ OverlapIdle
    /\ SingleIdle
    /\ BatchIdle
    /\ ValidateIdle
    /\ SizeIdle
    /\ IndicatorsIdle
    /\ serverMarketData = SeedMarketData
    /\ serverOpportunities = << >>
    /\ ticks = 0
    /\ steps = 0
    /\ emitted = << >>
    /\ nextId = 1

\* updateMarketData, server.js lines 139-206
UpdateMarketData ==
    /\ steps < MaxSteps
    /\ \E dr \in [PairSet -> TickDraws], assess \in BOOLEAN,
          rs \in [PairSet -> ServerRandomTerms],
          es \in [PairSet -> RoundingErrors] :
          LET md == [p \in PairSet |-> TickEntry(serverMarketData[p], dr[p])]
              new == IF assess THEN WithIds(assessAllPairs(md, rs, es), nextId)
                     ELSE << >>
          IN  /\ serverMarketData' = md
              /\ nextId' = nextId + Len(new)
              /\ IF assess /\ Len(new) > 0       \* Math.random() > 0.7
                 THEN /\ serverOpportunities' =
                            PrependNew(new, serverOpportunities)
                      /\ emitted' = <<"marketData", "opportunities", "alert">>
                 ELSE /\ serverOpportunities' = serverOpportunities
                      /\ emitted' = <<"marketData">>
    /\ ticks' = ticks + 1
    /\ steps' = steps + 1
    /\ UNCHANGED exceptServer

\* the scheduled assessment, server.js lines 212-224
ScheduledAssessment ==
    /\ steps < MaxSteps
    /\ \E rs \in [PairSet -> ServerRandomTerms],
          es \in [PairSet -> RoundingErrors] :
          LET new == WithIds(assessAllPairs(serverMarketData, rs, es), nextId)
          IN  /\ nextId' = nextId + Len(new)
              /\ IF Len(new) > 0
                 THEN /\ serverOpportunities' =
                            PrependNew(new, serverOpportunities)
                      /\ emitted' = <<"opportunities">>
                 ELSE /\ serverOpportunities' = serverOpportunities
                      /\ emitted' = << >>
    /\ steps' = steps + 1
    /\ UNCHANGED <<serverMarketData, ticks>>
    /\ UNCHANGED exceptServer

\* the socket handler of "assessOpportunities", server.js lines 107-130
AssessOpportunities ==
    /\ steps < MaxSteps
    /\ \E rs \in [PairSet -> ServerRandomTerms],
          es \in [PairSet -> RoundingErrors] :
          LET new == WithIds(assessAllPairs(serverMarketData, rs, es), nextId)
          IN  /\ nextId' = nextId + Len(new)
              /\ serverOpportunities' = PrependNew(new, serverOpportunities)
              /\ emitted' = IF Len(new) > 0
                            THEN <<"opportunities", "alert">>
                            ELSE <<"opportunities">>
    /\ steps' = steps + 1
    /\ UNCHANGED <<serverMarketData, ticks>>
    /\ UNCHANGED exceptServer

NextServer == UpdateMarketData \/ ScheduledAssessment \/ AssessOpportunities

SpecServer == InitServer /\ [][NextServer]_vars

\* tables the ticks lead to: adx around the two boundaries, slopes around
\* 0.0001, the regime as the last tick wrote it, at least the 17 history
\* points the way from adx 28 to 19.5 takes
TickTables ==
    {[p \in PairSet |->
        [SeedMarketData[p] EXCEPT
            !.adx = a[p], !.vwapSlope = v[p],
            !.regime = classifyRegime(a[p], v[p]), !.histLen = h]] :
        a \in [PairSet -> {Pts(20) - 1, Pts(20), Pts(20) + 1,
                           Pts(25), Pts(25) + 1}],
        v \in [PairSet -> {-3, 0, 3}],
        h \in {50, 99, 100}}

\* tables at the ends of the ranges: rsi half a point above 0 with adx 0
\* and a price of 0.0002, or rsi and adx at 100; the history is full
ExtremeTables ==
    {[p \in PairSet |->
        IF low[p]
        THEN [SeedMarketData[p] EXCEPT
                 !.rsi = 1, !.adx = 0, !.price = 200,
                 !.regime = classifyRegime(0, SeedMarketData[p].vwapSlope),
                 !.histLen = 100]
        ELSE [SeedMarketData[p] EXCEPT
                 !.rsi = Pts(100), !.adx = Pts(100),
                 !.regime = classifyRegime(Pts(100),
                                           SeedMarketData[p].vwapSlope),
                 !.histLen = 100]] :
        low \in [PairSet -> BOOLEAN]}

\* tables under which the opportunity history grew: each instrument either
\* ranging or trending
HistoryTables ==
    {t \in TickTables :
        \A p \in PairSet : /\ t[p].histLen = 100
                           /\ t[p].vwapSlope = 3
                           /\ t[p].adx \in {Pts(20) - 1, Pts(25) + 1}}

\* an opportunity emitted earlier for the instrument p, then ranging
PastOpportunity(p) ==
    assessSinglePair(p,
        [SeedMarketData[p] EXCEPT
            !.adx = Pts(20) - 1, !.vwapSlope = 3, !.regime = "ranging"],
        20 * ScoreScale - 1, 1)

\* a history of n opportunities written two at a time (EUR/USD, GBP/USD),
\* the most recent write first, ids in the order they were given out
PastHistory(n) ==
    [i \in 1 .. n |->
        IF i % 2 = 1
        THEN [id |-> n - i + 1] @@ PastOpportunity("EUR/USD")
        ELSE [id |-> n - i + 3] @@ PastOpportunity("GBP/USD")]

\* one more handler run from a table the ticks lead to, with an empty
\* history or one of 19 to 22 opportunities
InitTick ==
    /\ OverlapIdle
    /\ SingleIdle
    /\ BatchIdle
    /\ ValidateIdle
    /\ SizeIdle
    /\ IndicatorsIdle
    /\ \/ /\ serverMarketData \in TickTables \cup ExtremeTables
          /\ serverOpportunities = << >>
          /\ nextId = 1
       \/ /\ serverMarketData \in HistoryTables
          /\ \E n \in 19 .. 22 :
                /\ serverOpportunities = PastHistory(n)
                /\ nextId = n + 2
    /\ ticks = 0
    /\ steps = MaxSteps - 1
    /\ emitted = << >>

SpecTick == InitTick /\ [][NextServer]_vars

-----------------------------------------------------------------------------
(* Handler invocations that overlap (server.js lines 107-130, 139-206,     *)
(* 212-224).  Invocations started within one macrotask each run up to      *)
(* their first await and then continue as microtasks, which may interleave *)
(* at the awaits: the one after each assessSinglePair call in the loop of  *)
(* assessAllPairs and the one of the handler itself before it writes the   *)
(* history.  The interleaving is left open here.                           *)

InvIds == 1 .. MaxSteps

NotStarted ==
    [kind |-> "none", pc |-> "idle", idx |-> 0, found |-> << >>,
     startHistory |-> << >>, events |-> << >>]

\* the invocation as it enters assessAllPairs; startHistory is the history
\* at that moment
Started(kind, events) ==
    [kind |-> kind, pc |-> "loop", idx |-> 1, found |-> << >>,
     startHistory |-> serverOpportunities, events |-> events]

\* variant: the history as it was when the invocation started is written
WrittenHistory_Stale(found, current, atStart) == PrependNew(found, atStart)

\* lines 112, 194, 218: `opportunities` is read when the assignment runs
WrittenHistory(found, current, atStart) == PrependNew(found, current)

\* variant: the socket handler emits only when something new was found
ManualEvents_OnlyWhenNew(found) ==
    IF Len(found) > 0 THEN <<"opportunities", "alert">> ELSE << >>

\* lines 113-121: io.emit("opportunities"), then the alert if any is new
ManualEvents(found) ==
    IF Len(found) > 0 THEN <<"opportunities", "alert">>
    ELSE <<"opportunities">>

\* the tables at the start of the macrotask: GBP/USD ranging, EUR/USD
\* ranging or trending
OverlapTables ==
    {t \in HistoryTables : t["GBP/USD"].adx = Pts(20) - 1}

\* the draws of a tick that overlaps: every Math.random() 0, or every one 0.5
OverlapDraws == {dr \in TickDraws : dr.price \in {-500, 0}}

\* tables and histories at the start of the macrotask
InitOverlap ==
    /\ SingleIdle
    /\ BatchIdle
    /\ ValidateIdle
    /\ SizeIdle
    /\ IndicatorsIdle
    /\ serverMarketData \in OverlapTables
    /\ \/ serverOpportunities = << >> /\ nextId = 1
       \/ serverOpportunities = PastHistory(20) /\ nextId = 22
    /\ ticks = 0
    /\ steps = 0
    /\ emitted = << >>
    /\ inv = [i \in InvIds |-> NotStarted]

\* one iteration of the loop of assessAllPairs (part_001 lines 7-16) in the
\* invocation rec: the entry is read from the table md, a new opportunity
\* gets the id given
AfterAssess(rec, md, r, e, id) ==
    LET p == PAIRS[rec.idx]
        out == assessSinglePair(p, md[p], r, e)
        new == IF out.kind = "opp" THEN [id |-> id] @@ out ELSE out
        step == LoopIteration(rec.found, new)
    IN  [rec EXCEPT !.found = step.opportunities,
                    !.idx = @ + 1,
                    !.pc = IF rec.idx = Len(PAIRS) THEN "write" ELSE "loop"]

\* each cron job has one timer: at most one invocation of its handler
\* starts in a macrotask
NoneStarted(kind) == \A j \in InvIds : inv[j].kind # kind

\* socket.on("assessOpportunities"), lines 107-110: up to the first await,
\* the one after the assessSinglePair call for the first instrument
StartAssessOpportunities(i) ==
    /\ steps < MaxSteps
    /\ i = steps + 1
    /\ \E r \in ServerRandomTerms, e \in RoundingErrors :
          LET rec == AfterAssess(Started("manual", << >>), serverMarketData,
                                 r, e, nextId)
          IN  /\ inv' = [inv EXCEPT ![i] = rec]
              /\ nextId' = nextId + Len(rec.found)
    /\ steps' = steps + 1
    /\ UNCHANGED <<serverMarketData, serverOpportunities, ticks, emitted>>
    /\ UNCHANGED exceptOverlap

\* the scheduled assessment, lines 212-216: up to the first await
StartScheduledAssessment(i) ==
    /\ steps < MaxSteps
    /\ i = steps + 1
    /\ NoneStarted("scheduled")
    /\ \E r \in ServerRandomTerms, e \in RoundingErrors :
          LET rec == AfterAssess(Started("scheduled", << >>),
                                 serverMarketData, r, e, nextId)
          IN  /\ inv' = [inv EXCEPT ![i] = rec]
              /\ nextId' = nextId + Len(rec.found)
    /\ steps' = steps + 1
    /\ UNCHANGED <<serverMarketData, serverOpportunities, ticks, emitted>>
    /\ UNCHANGED exceptOverlap

\* updateMarketData, lines 139-192: the table update, the broadcast and the
\* draw that decides whether to assess, then up to the first await
StartUpdateMarketData(i) ==
    /\ steps < MaxSteps
    /\ i = steps + 1
    /\ NoneStarted("tick")
    /\ \E dr \in [PairSet -> OverlapDraws], assess \in BOOLEAN,
          r \in ServerRandomTerms, e \in RoundingErrors :
          LET md == [p \in PairSet |-> TickEntry(serverMarketData[p], dr[p])]
              rec == IF assess
                     THEN AfterAssess(Started("tick", <<"marketData">>), md,
                                      r, e, nextId)
                     ELSE [Started("tick", <<"marketData">>)
                              EXCEPT !.pc = "done"]
          IN  /\ serverMarketData' = md
              /\ inv' = [inv EXCEPT ![i] = rec]
              /\ nextId' = nextId + Len(rec.found)
    /\ ticks' = ticks + 1
    /\ steps' = steps + 1
    /\ UNCHANGED <<serverOpportunities, emitted>>
    /\ UNCHANGED exceptOverlap

\* the continuation of the loop of assessAllPairs in invocation i: the next
\* instrument's entry is read from the table as it is now
AssessPair(i) ==
    /\ inv[i].pc = "loop"
    /\ \E r \in ServerRandomTerms, e \in RoundingErrors :
          LET rec == AfterAssess(inv[i], serverMarketData, r, e, nextId)
          IN  /\ inv' = [inv EXCEPT ![i] = rec]
              /\ nextId' = nextId + Len(rec.found) - Len(inv[i].found)
    /\ UNCHANGED <<serverMarketData, serverOpportunities, ticks, steps, emitted>>
    /\ UNCHANGED exceptOverlap

\* what follows the await in the handler of invocation i: lines 112-121,
\* 193-201, 217-220
WriteHistory(i) ==
    /\ inv[i].pc = "write"
    /\ LET found == inv[i].found
           written == WrittenHistory(found, serverOpportunities,
                                     inv[i].startHistory)
       IN  IF inv[i].kind = "manual"
           THEN /\ serverOpportunities' = written
                /\ inv' = [inv EXCEPT ![i].pc = "done",
                                      ![i].events = ManualEvents(found)]
           ELSE IF Len(found) > 0
           THEN /\ serverOpportunities' = written
                /\ inv' = [inv EXCEPT
                      ![i].pc = "done",
                      ![i].events = IF inv[i].kind = "tick"
                                    THEN @ \o <<"opportunities", "alert">>
                                    ELSE <<"opportunities">>]
           ELSE /\ serverOpportunities' = serverOpportunities
                /\ inv' = [inv EXCEPT ![i].pc = "done"]
    /\ UNCHANGED <<serverMarketData, ticks, steps, emitted, nextId>>
    /\ UNCHANGED exceptOverlap

NextOverlap ==
    \E i \in InvIds :
        \/ StartAssessOpportunities(i)
        \/ StartScheduledAssessment(i)
        \/ StartUpdateMarketData(i)
        \/ AssessPair(i)
        \/ WriteHistory(i)

SpecOverlap == InitOverlap /\ [][NextOverlap]_vars

\* manual requests that arrive together, and the scheduled assessment with
\* them; the tables stand for what earlier ticks left
InitManual ==
    /\ SingleIdle
    /\ BatchIdle
    /\ ValidateIdle
    /\ SizeIdle
    /\ IndicatorsIdle
    /\ serverMarketData \in OverlapTables
    /\ serverOpportunities = << >>
    /\ nextId = 1
    /\ ticks = 0
    /\ steps = 0
    /\ emitted = << >>
    /\ inv = [i \in InvIds |-> NotStarted]

NextManual ==
    \E i \in InvIds :
        \/ StartAssessOpportunities(i)
        \/ StartScheduledAssessment(i)
        \/ AssessPair(i)
        \/ WriteHistory(i)

SpecManual == InitManual /\ [][NextManual]_vars

\* the microtask queue is drained: a started invocation goes on to its end
SpecManualFair ==
    SpecManual /\ \A i \in InvIds : WF_vars(AssessPair(i) \/ WriteHistory(i))

-----------------------------------------------------------------------------
(* Properties of one assessSinglePair call (specification Spec)            *)

Emitted == pc = "done" /\ result.kind = "opp"

\* riskReward >= 1.5 on an emitted value: false for NaN
AtLeastMinRiskReward(rr) ==
    \/ rr.kind = "Infinity"
    \/ rr.kind = "num" /\ rr.val >= 150

\* the example snapshot of the design notes: price 1.0855, atr 0.0085,
\* vwapSlope 0.0003, rsi 52, adx 28, trending, spread 1.1, random term 0
ExampleCall ==
    /\ pc = "done"
    /\ rnd = 0
    /\ data.price = 1085500 /\ data.atr = 8500 /\ data.vwapSlope = 6
    /\ data.rsi = Pts(52) /\ data.adx = Pts(28)
    /\ data.regime = "trending" /\ data.spread = 110

\* C1: every Opportunity returned by assessSinglePair has riskReward >= 1.5
\* and score >= 70, snapshots with atr = 0 included.
C1_EmittedMeetsThresholds ==
    Emitted => /\ result.score >= 70
               /\ AtLeastMinRiskReward(result.riskReward)

\* C2: the example snapshot with random term 0 emits a Trend Continuation
\* Opportunity with riskReward 2.0 and confidence high; any trending snapshot
\* with atr > 0 and score >= 70 emits a Trend Continuation Opportunity.
C2_TrendContinuationEmitted ==
    /\ ExampleCall => /\ result.kind = "opp"
                      /\ result.setup = "Trend Continuation"
                      /\ result.riskReward = [kind |-> "num", val |-> 200]
                      /\ result.confidence = "high"
    /\ (pc = "done" /\ data.regime = "trending" /\ data.atr > 0
          /\ score >= 70 * ScoreScale)
       => (result.kind = "opp" /\ result.setup = "Trend Continuation")

\* C3 as stated: on the example snapshot with random term 0 the score sums
\* to 105 before the clamp (strong-trend bonus included) and 100 is returned.
C3_ExampleScoreIs105 ==
    ExampleCall => /\ rawScore = 105 * ScoreScale
                   /\ score = 100 * ScoreScale

\* C3 amended: on the example snapshot with random term 0 the score sums to
\* 50+15+12+8+10 = 95 and 95 is returned unclamped; the +10 strong-trend
\* bonus is not applied at |vwapSlope| = 0.0003, only strictly above it.
C3_ExampleScoreIs95 ==
    /\ ExampleCall => /\ rawScore = 95 * ScoreScale
                      /\ score = 95 * ScoreScale
    /\ (pc = "done" /\ data.regime = "trending" /\ Abs(data.vwapSlope) = 6)
       => rawScore = ScoreBeforeClamp([data EXCEPT !.vwapSlope = 3], rnd)

C3_Witness == ExampleCall /\ score = 95 * ScoreScale

\* C4: a snapshot with atr = 0 never yields an Opportunity.
C4_ZeroAtrRejected ==
    (pc = "done" /\ data.atr = 0) => result.kind # "opp"

\* C5: in every emitted Opportunity confidence agrees with the emitted
\* integer score: high iff score >= 85, medium iff 75 <= score < 85,
\* low iff score < 75.  Stated on snapshots with atr > 0, whose risk:reward
\* is a number.
C5_ConfidenceMatchesScore ==
    (Emitted /\ data.atr > 0)
            => /\ result.confidence = "high" <=> result.score >= 85
               /\ result.confidence = "medium"
                    <=> (result.score >= 75 /\ result.score < 85)
               /\ result.confidence = "low" <=> result.score < 75

\* C7: calculateTradingLevels follows the reference rule: entry is the
\* snapshot price; Trend Continuation puts the stop 1.5 atr behind and the
\* target 2.0 atr ahead, long iff vwapSlope > 0; Liquidity Reversal puts the
\* stop 1.0 atr behind and the target 1.5 atr ahead, short iff rsi > 70; the
\* setup is Trend Continuation iff the regime is trending.
C7_LevelsMatchReference ==
    pc = "done" =>
      LET trend == data.regime = "trending"
          dir == IF trend THEN (IF data.vwapSlope > 0 THEN 1 ELSE -1)
                 ELSE (IF data.rsi > Pts(70) THEN -1 ELSE 1)
          stopHalves == IF trend THEN 3 ELSE 2
          targetHalves == IF trend THEN 4 ELSE 3
      IN  /\ (setup = "Trend Continuation") <=> trend
          /\ setup \in {"Trend Continuation", "Liquidity Reversal"}
          /\ levels.entry = 2 * data.price
          /\ levels.stopLoss - levels.entry = -dir * stopHalves * data.atr
          /\ levels.takeProfit - levels.entry = dir * targetHalves * data.atr

\* a bearish Trend Continuation at vwapSlope = 0 with a real stop distance
C7_Witness ==
    /\ pc = "done"
    /\ setup = "Trend Continuation"
    /\ data.vwapSlope = 0
    /\ data.atr > 0
    /\ levels.stopLoss > levels.entry
    /\ levels.takeProfit < levels.entry

-----------------------------------------------------------------------------
(* Properties of assessAllPairs (specification SpecBatch)                  *)

Assessed(p) == outcomes[p].kind # "pending" /\ ~marketData[p].isNull

\* the spread adjustment that went into the score of p: the recorded sum
\* minus the sum of the same snapshot at spread 0, which earns the full +10
SpreadAdjustmentUsed(p) ==
    rawScores[p]
      - ScoreBeforeClamp([marketData[p] EXCEPT !.spread = 0], brnds[p])
      + 10 * ScoreScale

SpreadAdjustmentFor(baseline, spread) ==
    IF spread <= baseline THEN 10 * ScoreScale
    ELSE IF 10 * spread <= 12 * baseline THEN 5 * ScoreScale
    ELSE -(10 * ScoreScale)

\* C6: assessAllPairs scores the spread of EUR/USD against the baseline 1.2
\* (<= 1.2: +10, <= 1.44: +5, above: -10) and the spread of every other
\* instrument against 1.8.
C6_SpreadBaselinePerInstrument ==
    \A p \in PairSet :
      Assessed(p) =>
        SpreadAdjustmentUsed(p)
          = SpreadAdjustmentFor(IF p = "EUR/USD" THEN 120 ELSE 180,
                                marketData[p].spread)

OpportunitiesOf(outs) == SelectSeq(outs, LAMBDA o : o.kind = "opp")

\* C8: a throw while assessing one instrument never aborts the batch: the
\* call is never rejected, it returns, and it returns exactly the
\* Opportunities its assessSinglePair calls produced, at most one per
\* instrument, in the iteration order of the mapping.
C8_FailureIsolated ==
    /\ [](bpc # "rejected")
    /\ <>(bpc = "returned")
    /\ [](bpc = "returned" =>
            /\ returned = OpportunitiesOf([k \in 1 .. Len(PAIRS) |-> outcomes[PAIRS[k]]])
            /\ \A j, k \in 1 .. Len(returned) :
                 returned[j].pair = returned[k].pair => j = k)

\* the first instrument threw and the second one still got its Opportunity
C8_Witness ==
    /\ bpc = "returned"
    /\ outcomes[PAIRS[1]].kind = "throw"
    /\ Len(returned) = 1
    /\ returned[1].pair = PAIRS[2]

-----------------------------------------------------------------------------
(* Properties of validateSettings (specification SpecValidate)             *)

Occurrences(seq, m) == Cardinality({k \in 1 .. Len(seq) : seq[k] = m})

\* the rules of the risk policy, each with the message that reports it
RuleViolations(s) ==
    {<<MsgBalanceLow, s.balance < 100>>,
     <<MsgBalanceHigh, s.balance > 1000000>>,
     <<MsgRiskPerTrade, s.riskPerTrade < 1 \/ s.riskPerTrade > 50>>,
     <<MsgDailyLoss, s.dailyLossLimit < 10 \/ s.dailyLossLimit > 100>>,
     <<MsgRiskExceedsDaily, s.riskPerTrade > s.dailyLossLimit>>,
     <<MsgMaxTrades, s.maxTrades < 10 \/ s.maxTrades > 200>>}

\* C10: validateSettings evaluates every check: the errors list holds exactly
\* one message for each violated rule and no other message; balance 50 with
\* otherwise valid fields gives valid = false with the balance-too-low
\* message.
C10_EveryViolationReported ==
    vpc = "done" =>
      /\ \A rule \in RuleViolations(settings) :
           Occurrences(validation.errors, rule[1]) = IF rule[2] THEN 1 ELSE 0
      /\ Len(validation.errors)
           = Cardinality({rule \in RuleViolations(settings) : rule[2]})
      /\ (settings = [balance |-> 50, riskPerTrade |-> 10,
                      dailyLossLimit |-> 25, maxTrades |-> 30])
           => (~validation.isValid /\ validation.errors = <<MsgBalanceLow>>)

\* four rules are violated at once and all four are reported
C10_Witness ==
    /\ vpc = "done"
    /\ settings = [balance |-> 50, riskPerTrade |-> 120,
                   dailyLossLimit |-> 25, maxTrades |-> 0]
    /\ Len(validation.errors) = 4

\* the five range rules and the cross rule of the risk policy
WithinPolicy(s) ==
    /\ s.balance >= 100 /\ s.balance <= 1000000
    /\ s.riskPerTrade >= 1 /\ s.riskPerTrade <= 50
    /\ s.dailyLossLimit >= 10 /\ s.dailyLossLimit <= 100
    /\ s.maxTrades >= 10 /\ s.maxTrades <= 200
    /\ s.riskPerTrade <= s.dailyLossLimit

C12_MaxTradesInteger ==
    (vpc = "done" /\ settings.maxTrades % 10 # 0) => ~validation.isValid

-----------------------------------------------------------------------------
(* Properties of calculatePositionSize (specification SpecSize)            *)

\* C13: when entry equals stop calculatePositionSize returns an explicit
\* failure, not a sizing report.
C13_ZeroStopDistanceFails ==
    (spc = "done" /\ sizeArgs.entryPrice = sizeArgs.stopLoss)
        => sizing.kind # "report"

\* the pip-value table of the policy, in hundredths
PipValueTable ==
    [p \in {"EUR/USD", "GBP/USD", "USD/CHF"} |-> 100] @@ ("USD/JPY" :> 1)

\* q is x / y rounded to the nearest integer, halves up, for y > 0
IsRoundedQuotient(q, x, y) == 2 * y * q - y <= 2 * x /\ 2 * x < 2 * y * q + y

\* C14: for entry # stop the report has riskAmount = balance*riskPerTrade/100,
\* stopDistance = |entry - stop| * 10000, pipValue from the table (1 for an
\* instrument not in it) and positionSize = riskAmount / (stopDistance *
\* pipValue) rounded to 2 decimals; (10000, 1, 1.0855, 1.0825, EUR/USD) gives
\* 100, 30, 1 and 3.33.
C14_SizingReport ==
    (spc = "done" /\ sizeArgs.entryPrice # sizeArgs.stopLoss) =>
      LET a == sizeArgs
          pair == IF a.pair = Undefined THEN "EUR/USD" ELSE a.pair
          pv == IF pair \in DOMAIN PipValueTable THEN PipValueTable[pair] ELSE 100
          dist == Abs(a.entryPrice - a.stopLoss)
      IN  /\ sizing.kind = "report"
          /\ sizing.riskAmount = a.accountBalance * a.riskPerTrade
          /\ sizing.stopDistance = dist
          /\ sizing.pipValue = pv
          /\ sizing.positionSize.kind = "num"
          /\ IsRoundedQuotient(sizing.positionSize.val,
                               100 * a.accountBalance * a.riskPerTrade,
                               dist * pv)
          /\ (a = [accountBalance |-> 10000, riskPerTrade |-> 10,
                   entryPrice |-> 108550, stopLoss |-> 108250,
                   pair |-> "EUR/USD"])
               => /\ sizing.riskAmount = 100000
                  /\ sizing.stopDistance = 300
                  /\ sizing.pipValue = 100
                  /\ sizing.positionSize.val = 333

\* a USD/JPY position, whose pip value is the 0.01 of the table
C14_Witness ==
    /\ spc = "done"
    /\ sizeArgs.pair = "USD/JPY"
    /\ sizeArgs.accountBalance = 10000
    /\ sizeArgs.entryPrice # sizeArgs.stopLoss
    /\ sizing.pipValue = 1
    /\ sizing.positionSize.val > 0

-----------------------------------------------------------------------------
(* Properties of the indicator functions                                   *)

IndicatorsDone == ipc = "done"

InRange0To100(v) == v.kind = "num" /\ 0 <= v.num /\ v.num <= 100 * v.den

(* C17: in a series of at least period + 2 bars, every RSI sample whose    *)
(* smoothed average loss is above zero has a value within [0, 100].        *)
C17_RsiWithinRange ==
    (IndicatorsDone /\ Len(series) >= Period + 2) =>
        \A i \in 1 .. Len(rsiData) :
            rsiData[i].avgLoss.num > 0 => InRange0To100(rsiData[i].value)

\* a sample with gains and losses both present, strictly inside the range
C17_Witness ==
    /\ IndicatorsDone
    /\ Len(series) >= Period + 2
    /\ \E i \in 1 .. Len(rsiData) :
          /\ rsiData[i].avgLoss.num > 0
          /\ rsiData[i].avgGain.num > 0
          /\ rsiData[i].value.num > 0
          /\ rsiData[i].value.num < 100 * rsiData[i].value.den

(* C18: every RSI sample whose smoothed average loss is exactly zero,      *)
(* whether the closes rose or the series was completely flat, has the      *)
(* value 100.                                                              *)
C18_ZeroLossGives100 ==
    IndicatorsDone =>
        \A i \in 1 .. Len(rsiData) :
            rsiData[i].avgLoss.num = 0 => rsiData[i].value = Frac(100, 1)

IsFlat(d) ==
    \A i \in 1 .. Len(d) :
        /\ d[i].high = d[1].close
        /\ d[i].low = d[1].close
        /\ d[i].close = d[1].close

(* C19: every ATR sample is at least zero whatever the series, and for a   *)
(* flat series every ATR sample is zero.                                   *)
C19_AtrNonNegative ==
    IndicatorsDone =>
        /\ \A i \in 1 .. Len(atrData) :
              atrData[i].value.kind = "num" /\ atrData[i].value.num >= 0
        /\ IsFlat(series) =>
              \A i \in 1 .. Len(atrData) : atrData[i].value.num = 0

\* a series holding a bar whose high is below its low, with ATR samples
C19_Witness ==
    /\ IndicatorsDone
    /\ \E i \in 1 .. Len(series) : series[i].high < series[i].low
    /\ Len(atrData) >= 2
    /\ \A i \in 1 .. Len(atrData) : atrData[i].value.num > 0

TypicalPrice3(b) == b.high + b.low + b.close

StrictlyIncreasing(d) ==
    \A i \in 2 .. Len(d) : TypicalPrice3(d[i]) > TypicalPrice3(d[i - 1])

(* C20: when prices rise strictly from bar to bar, every VWAP sample after *)
(* the first has a slope of at least zero, and the first slope is zero.    *)
C20_VwapSlopeNonNegative ==
    (IndicatorsDone /\ StrictlyIncreasing(series)) =>
        \A i \in 1 .. Len(vwapData) :
            /\ vwapData[i].slope.kind = "num"
            /\ vwapData[i].slope.num >= 0
            /\ i = 1 => vwapData[i].slope.num = 0

\* a rising series of several bars, with a positive slope at its end
C20_Witness ==
    /\ IndicatorsDone
    /\ StrictlyIncreasing(series)
    /\ Len(vwapData) >= 4
    /\ vwapData[Len(vwapData)].slope.num > 0

-----------------------------------------------------------------------------
(* Properties of the server's market-data table                            *)

\* the regime the classification rule gives for an entry's adx and slope
RegimeAsClassified(e) ==
    IF e.adx > Pts(25) /\ (e.vwapSlope > 2 \/ e.vwapSlope < -2)
    THEN e.regime = "trending"
    ELSE IF e.adx < Pts(20) THEN e.regime = "ranging"
    ELSE e.regime = "volatile"

(* C15: in every state of the market-data table, from the seed on, each    *)
(* instrument's regime is the one the classifier gives for its adx and     *)
(* vwapSlope.                                                              *)
C15_RegimeAlwaysClassified ==
    \A p \in DOMAIN serverMarketData : RegimeAsClassified(serverMarketData[p])

(* C16: the regime a tick writes depends on the new adx and vwapSlope      *)
(* only: it is exactly the classifier's regime for them, whatever the      *)
(* regime was before, and adx = 25 and adx = 20 both give "volatile".      *)
C16_TickRegimeMemoryless ==
    [][ticks' # ticks =>
        \A p \in PairSet :
            /\ RegimeAsClassified(serverMarketData'[p])
            /\ serverMarketData'[p].regime \in {"trending", "ranging", "volatile"}
            /\ serverMarketData'[p].adx \in {Pts(25), Pts(20)} =>
                  serverMarketData'[p].regime = "volatile"]_vars

\* after a tick one instrument sits at adx = 25 with a steep slope, the
\* other at adx = 20, and both are volatile
C16_Witness ==
    /\ ticks > 0
    /\ serverMarketData["EUR/USD"].adx = Pts(25)
    /\ serverMarketData["EUR/USD"].vwapSlope > 2
    /\ serverMarketData["EUR/USD"].regime = "volatile"
    /\ serverMarketData["GBP/USD"].adx = Pts(20)
    /\ serverMarketData["GBP/USD"].regime = "volatile"

-----------------------------------------------------------------------------
(* Further properties of the indicator functions                           *)

\* every bar's close lies between its low and its high
WellFormed(d) ==
    \A i \in 1 .. Len(d) : d[i].low <= d[i].close /\ d[i].close <= d[i].high

(* C21: for a series of at least 2 * period bars every ADX sample is a      *)
(* defined number within [0, 100], also when a window has no directional   *)
(* movement or a zero average true range.                                  *)
C21_AdxWithinRange ==
    (IndicatorsDone /\ Len(series) >= 2 * Period /\ WellFormed(series)) =>
        \A i \in 1 .. Len(adxData) : InRange0To100(adxData[i].value)

(* C22: the pivot levels come from the last bar (H, L, C) only: pivot =    *)
(* (H+L+C)/3, r1 = 2 pivot - L, r2 = pivot + (H-L), r3 = H + 2 (pivot-L),   *)
(* s1 = 2 pivot - H, s2 = pivot - (H-L), s3 = L - 2 (H-pivot); H 1.09,      *)
(* L 1.08, C 1.085 give pivot 1.085, r1 1.09, s1 1.08; an empty series     *)
(* gives an empty record.  Levels are in thirds of a price tick.           *)
C22_PivotsFromLastBar ==
    IndicatorsDone =>
        IF Len(series) = 0 THEN pivotPoints = [kind |-> "empty"]
        ELSE LET H == series[Len(series)].high
                 L == series[Len(series)].low
                 C == series[Len(series)].close
                 P3 == H + L + C
             IN  /\ pivotPoints.kind = "levels"
                 /\ pivotPoints.pivot = P3
                 /\ pivotPoints.r1 = 2 * P3 - 3 * L
                 /\ pivotPoints.r2 = P3 + 3 * (H - L)
                 /\ pivotPoints.r3 = 3 * H + 2 * (P3 - 3 * L)
                 /\ pivotPoints.s1 = 2 * P3 - 3 * H
                 /\ pivotPoints.s2 = P3 - 3 * (H - L)
                 /\ pivotPoints.s3 = 3 * L - 2 * (3 * H - P3)
                 /\ series[Len(series)] = PivotExampleBar =>
                       /\ pivotPoints.pivot = 3 * 217
                       /\ pivotPoints.r1 = 3 * 218
                       /\ pivotPoints.s1 = 3 * 216

\* the example bar at the end of a series that starts with another bar
C22_Witness ==
    /\ IndicatorsDone
    /\ Len(series) >= 2
    /\ series[Len(series)] = PivotExampleBar
    /\ series[1] # PivotExampleBar
    /\ pivotPoints.kind = "levels"
    /\ pivotPoints.pivot = 3 * 217

(* C23: for n bars and period p the outputs have these lengths: VWAP n;   *)
(* RSI n-p-1 if n >= p+1, else 0; ATR n-p if n >= p+1, else 0; ADX n-p if   *)
(* n >= 2p, else 0.  VWAP sample k belongs to bar k, RSI sample k takes    *)
(* the timestamp of bar p+1+k and ATR sample k that of bar p+k.            *)
C23_OutputLengths ==
    IndicatorsDone =>
        LET n == Len(series)
            p == Period
        IN  /\ Len(vwapData) = n
            /\ Len(rsiData) = IF n >= p + 1 THEN n - p - 1 ELSE 0
            /\ Len(atrData) = IF n >= p + 1 THEN n - p ELSE 0
            /\ Len(adxData) = IF n >= 2 * p THEN n - p ELSE 0
            /\ \A k \in 1 .. Len(vwapData) : vwapData[k].bar = k
            /\ \A k \in 1 .. Len(rsiData) : rsiData[k].bar = p + 1 + k
            /\ \A k \in 1 .. Len(atrData) : atrData[k].bar = p + k

\* a series long enough for every indicator to give samples
C23_Witness ==
    /\ IndicatorsDone
    /\ Len(series) > 2 * Period
    /\ Len(rsiData) >= 2
    /\ Len(atrData) > Len(rsiData)
    /\ Len(adxData) = Len(atrData)
    /\ rsiData[Len(rsiData)].bar = Len(series)
    /\ atrData[Len(atrData)].bar = Len(series)

(* C25: the bar series calculateIndicators builds and hands to the       *)
(* indicator functions is in strictly ascending timestamp order, so it has *)
(* no duplicate timestamps and its last element is the most recent bar.    *)
C25_SeriesAscending ==
    IndicatorsDone =>
        \A i \in 1 .. Len(series) : \A j \in 1 .. Len(series) :
            i < j => series[i].timestamp < series[j].timestamp

-----------------------------------------------------------------------------
(* Further properties of one assessSinglePair call (specification Spec)    *)

(* C27: for a snapshot with atr > 0 every Opportunity emitted is a         *)
(* Liquidity Reversal in a regime other than trending with riskReward 1.5; *)
(* a Trend Continuation candidate has risk:reward 2.0 / 1.5 < 1.5 and is   *)
(* never emitted.                                                          *)
C27_OnlyLiquidityReversalEmitted ==
    /\ (Emitted /\ data.atr > 0) =>
          /\ result.setup = "Liquidity Reversal"
          /\ data.regime # "trending"
          /\ result.regime # "trending"
          /\ result.riskReward = [kind |-> "num", val |-> 150]
    /\ (pc = "done" /\ data.atr > 0 /\ data.regime = "trending") =>
          /\ 2 * riskReward.num < 3 * riskReward.den
          /\ 3 * riskReward.num = 4 * riskReward.den
          /\ result.kind = "null"

\* an emitted Liquidity Reversal whose risk:reward came out just above 1.5
C27_Witness ==
    /\ Emitted
    /\ data.atr > 0
    /\ fperr = 1
    /\ result.setup = "Liquidity Reversal"
    /\ result.riskReward = [kind |-> "num", val |-> 150]

(* C29: for a snapshot with atr > 0, whichever the setup, stopLoss and     *)
(* takeProfit lie strictly on opposite sides of entry: stopLoss < entry <  *)
(* takeProfit for a bullish trade, takeProfit < entry < stopLoss for a     *)
(* bearish one; so the risk is above zero and the risk:reward is a         *)
(* positive finite number.                                                 *)
C29_LevelsOnOppositeSides ==
    (pc = "done" /\ data.atr > 0) =>
        LET bullish == IF data.regime = "trending" THEN data.vwapSlope > 0
                       ELSE ~(data.rsi > Pts(70))
        IN  /\ bullish => /\ levels.stopLoss < levels.entry
                          /\ levels.entry < levels.takeProfit
            /\ ~bullish => /\ levels.takeProfit < levels.entry
                           /\ levels.entry < levels.stopLoss
            /\ riskReward.kind = "num"
            /\ riskReward.den > 0
            /\ riskReward.num > 0

\* a bearish Liquidity Reversal: overbought, target below and stop above
C29_Witness ==
    /\ pc = "done"
    /\ data.atr > 0
    /\ setup = "Liquidity Reversal"
    /\ data.rsi > Pts(70)
    /\ levels.takeProfit < levels.entry
    /\ levels.entry < levels.stopLoss
    /\ riskReward.kind = "num"

-----------------------------------------------------------------------------
(* Further properties of the server's state                                *)

(* C30: after any number of ticks every instrument has rsi and adx within *)
(* [0, 100], a price of at least 0 and at most 100 historicalData points,  *)
(* and its atr, spread and correlation are those of the seed.              *)
C30_TickRangesAndFrame ==
    \A p \in DOMAIN serverMarketData :
        /\ 0 <= serverMarketData[p].rsi
        /\ serverMarketData[p].rsi <= Pts(100)
        /\ 0 <= serverMarketData[p].adx
        /\ serverMarketData[p].adx <= Pts(100)
        /\ serverMarketData[p].price >= 0
        /\ serverMarketData[p].histLen <= 100
        /\ serverMarketData[p].atr = SeedMarketData[p].atr
        /\ serverMarketData[p].spread = SeedMarketData[p].spread
        /\ serverMarketData[p].correlation = SeedMarketData[p].correlation

\* a tick has clamped rsi, adx and price of EUR/USD at 0 with a full
\* history, GBP/USD sits at rsi 100
C30_Witness ==
    /\ ticks > 0
    /\ serverMarketData["EUR/USD"].rsi = 0
    /\ serverMarketData["EUR/USD"].adx = 0
    /\ serverMarketData["EUR/USD"].price = 0
    /\ serverMarketData["EUR/USD"].histLen = 100
    /\ serverMarketData["EUR/USD"].atr = 8500
    /\ serverMarketData["GBP/USD"].rsi = Pts(100)
    /\ serverMarketData["GBP/USD"].adx = Pts(100)

IdsOf(history) == {history[i].id : i \in 1 .. Len(history)}

(* C24: the opportunity history never holds more than 20 entries plus one  *)
(* per instrument, and each write leaves the opportunities just generated  *)
(* (at most one per instrument, with fresh ids) at the head, followed by   *)
(* the 20 most recent earlier ones, or all of them if fewer, in their      *)
(* previous order.                                                         *)
C24_HistoryBounded ==
    /\ [](Len(serverOpportunities) <= 20 + Len(PAIRS))
    /\ [][serverOpportunities' # serverOpportunities =>
            LET kept == IF Len(serverOpportunities) < 20
                        THEN Len(serverOpportunities) ELSE 20
                k == Len(serverOpportunities') - kept
            IN  /\ k \in 0 .. Len(PAIRS)
                /\ \A i \in 1 .. k :
                      serverOpportunities'[i].id \notin IdsOf(serverOpportunities)
                /\ \A i \in 1 .. kept :
                      serverOpportunities'[k + i] = serverOpportunities[i]]_vars

\* a write of two new opportunities on top of a history that was cut to 20
C24_Witness ==
    /\ steps = MaxSteps
    /\ Len(serverOpportunities) = 22
    /\ serverOpportunities[1].id = nextId - 2
    /\ serverOpportunities[2].id = nextId - 1
    /\ serverOpportunities[3] = PastHistory(22)[1]
    /\ serverOpportunities[22] = PastHistory(22)[20]
    /\ \A i \in 1 .. 22 : serverOpportunities[i].kind = "opp"

-----------------------------------------------------------------------------
(* Properties of overlapping handler invocations                           *)

Contains(history, o) == \E m \in 1 .. Len(history) : history[m] = o

(* C26: when assessments overlap, the write of an invocation keeps every   *)
(* opportunity that another invocation wrote after this one started, as    *)
(* long as it is among the 20 most recent; and a step of assessAllPairs    *)
(* leaves the market-data table as it is.                                  *)
C26_OverlapSafe ==
    [][\A i \in InvIds :
          /\ (inv[i].pc = "write" /\ inv'[i].pc = "done") =>
                \A j \in 1 .. Len(serverOpportunities) :
                    (/\ j <= 20
                     /\ serverOpportunities[j].id
                           \notin IdsOf(inv[i].startHistory))
                    => Contains(serverOpportunities', serverOpportunities[j])
          /\ (inv[i].pc = "loop" /\ inv'[i] # inv[i]) =>
                serverMarketData' = serverMarketData]_vars

\* invocation i started first, j wrote its opportunity while i was waiting,
\* then i wrote: i's opportunity is at the head and j's is still there
C26_Witness ==
    \E i \in DOMAIN inv : \E j \in DOMAIN inv :
        /\ i < j
        /\ inv[i].pc = "done"
        /\ inv[j].pc = "done"
        /\ Len(inv[i].found) > 0
        /\ Len(inv[j].found) > 0
        /\ Len(serverOpportunities) > 20
        /\ serverOpportunities[1] = inv[i].found[1]
        /\ inv[j].found[1].id \notin IdsOf(inv[i].startHistory)
        /\ Contains(serverOpportunities, inv[j].found[1])

InSeq(x, seq) == \E m \in 1 .. Len(seq) : seq[m] = x

(* C28: every manual request the server received is answered in the end:   *)
(* the history is broadcast as an "opportunities" event, also when nothing *)
(* new was found; the success alert is broadcast exactly when at least one *)
(* new opportunity was generated.  (The handler's error alert needs        *)
(* assessAllPairs to throw, which it does not.)                            *)
C28_ManualAnswered ==
    /\ \A i \in InvIds :
          (inv[i].kind = "manual") ~>
              (inv[i].pc = "done" /\ InSeq("opportunities", inv[i].events))
    /\ [](\A i \in InvIds :
             (inv[i].kind = "manual" /\ inv[i].pc = "done") =>
                 /\ InSeq("opportunities", inv[i].events)
                 /\ InSeq("alert", inv[i].events) <=> Len(inv[i].found) > 0)

\* a manual request that found nothing new and was answered by the
\* broadcast alone, and one that found something and sent the alert too
C28_Witness ==
    \E i \in DOMAIN inv : \E j \in DOMAIN inv :
        /\ inv[i].kind = "manual"
        /\ inv[i].pc = "done"
        /\ inv[i].found = << >>
        /\ inv[i].events = <<"opportunities">>
        /\ inv[j].kind = "manual"
        /\ inv[j].pc = "done"
        /\ Len(inv[j].found) > 0
        /\ inv[j].events = <<"opportunities", "alert">>

=============================================================================
